---- MODULE Spec2Model ----
(***************************************************************************)
(* Model of the checkout orchestration of hipstershop's checkoutservice    *)
(* (src/src/checkoutservice/main.go): PlaceOrder and the adapters it calls. *)
(* Every downstream RPC is two steps, the call (dial and send) and the      *)
(* return (answer received, deferred conn.Close run), so that the calls in  *)
(* flight and the connections open are part of the state.                   *)
(***************************************************************************)
EXTENDS Integers, Sequences, FiniteSets, TLC

\* ------------------------------------------------------------------ bounds
MaxItems == 2
MaxQty == 2

\* --------------------------------------------------------------- constants
nanosMod == 1000000000

Reqs == {"r1", "r2"}
Users == {"u1"}
Currencies == {"USD", "EUR"}
Products == {"P1", "P2"}
Addresses == {"A1", "A2"}
TrackingIds == {"T1", "T2"}
usdCurrency == "USD"

Nil == [nil |-> TRUE]

Money(c, u, n) == [currency_code |-> c, units |-> u, nanos |-> n]

CartItem(p, q) == [product_id |-> p, quantity |-> q]

CartItems == {CartItem(p, q) : p \in Products, q \in 1..MaxQty}

RECURSIVE SeqsUpTo(_, _)
SeqsUpTo(S, n) ==
  IF n = 0 THEN {<<>>}
  ELSE LET shorter == SeqsUpTo(S, n - 1)
       IN  shorter \cup {Append(s, x) : s \in {t \in shorter : Len(t) = n - 1}, x \in S}

Carts == SeqsUpTo(CartItems, MaxItems)

\* ------------------------------------------------------ money arithmetic
\* Go's integer division and remainder truncate toward zero.
Quot(a, b) == IF a >= 0 THEN a \div b ELSE -((-a) \div b)
Rem(a, b) == a - b * Quot(a, b)

\* Mutant of Sum: a sum of zero units is not taken as having the sign of its
\* nanos, so a unit is borrowed from it.
Sum_borrowsFromZeroUnits(l, r) ==
  IF l.currency_code # r.currency_code
  THEN [ok |-> FALSE, val |-> Nil]
  ELSE LET units == l.units + r.units
           nanos == l.nanos + r.nanos
       IN  [ok |-> TRUE,
            val |-> IF (units = 0 /\ nanos = 0) \/ (units > 0 /\ nanos >= 0) \/ (units < 0 /\ nanos <= 0)
                    THEN Money(l.currency_code, units + Quot(nanos, nanosMod), Rem(nanos, nanosMod))
                    ELSE IF units > 0 THEN Money(l.currency_code, units - 1, nanos + nanosMod)
                    ELSE Money(l.currency_code, units + 1, nanos - nanosMod)]

\* money.Sum: units and nanos are added independently, a nanos magnitude
\* above 999,999,999 is carried into the units, and opposite signs are
\* resolved by borrowing one unit.
Sum(l, r) ==
  IF l.currency_code # r.currency_code
  THEN [ok |-> FALSE, val |-> Nil]
  ELSE LET units == l.units + r.units
           nanos == l.nanos + r.nanos
           u1 == units + Quot(nanos, nanosMod)
           n1 == Rem(nanos, nanosMod)
       IN  [ok |-> TRUE,
            val |-> IF u1 > 0 /\ n1 < 0 THEN Money(l.currency_code, u1 - 1, n1 + nanosMod)
                    ELSE IF u1 < 0 /\ n1 > 0 THEN Money(l.currency_code, u1 + 1, n1 - nanosMod)
                    ELSE Money(l.currency_code, u1, n1)]

\* ------------------------------------------------------- the collaborators
\* ProductCatalog.GetProduct: the product's price in USD.
PriceUsd(p) == IF p = "P1" THEN Money(usdCurrency, 10, 0) ELSE Money(usdCurrency, 7, 600000000)

\* Shipping.GetQuote: the quotes the shipping collaborator may answer, in USD.
ShipQuotes == {Money(usdCurrency, 5, 0), Money(usdCurrency, 3, 990000000)}

\* Currency.Convert at the rate the collaborator applies: 1/1 within a
\* currency, 9/10 from USD (the currency of every price and quote) to EUR.
ConvertAtRate(from, to) ==
  IF from.currency_code = to THEN from
  ELSE LET u9 == from.units * 9
           n == (u9 % 10) * 100000000 + (from.nanos \div 10) * 9
       IN  Money(to, (u9 \div 10) + (n \div nanosMod), n % nanosMod)

OtherCurrency(c) == IF c = "USD" THEN "EUR" ELSE "USD"

\* What the currency collaborator may answer to Convert(from, to): the
\* converted amount in the target currency, or (a collaborator breaking its
\* contract) the same amount labelled with another currency code.
ConvertReplies(from, to) ==
  LET m == ConvertAtRate(from, to)
  IN  {m, Money(OtherCurrency(to), m.units, m.nanos)}

\* ------------------------------------------------------------------- state
VARIABLES
  req,        \* req[r]: the PlaceOrderRequest of request r
  frame,      \* frame[r]: position and local variables of PlaceOrder(r) and its callees
  resp,       \* resp[r]: what PlaceOrder(r) returned, (response, error)
  calls,      \* calls[r]: the downstream RPCs r has issued, in order, with their answers
  inflight,   \* inflight[r]: indices in calls[r] of the RPCs not yet returned
  conns,      \* conns[r]: the connections r has dialed and not yet closed
  dials,      \* dials[r]: the grpc.DialContext calls of r, in order, with their outcome
  cart,       \* the cart collaborator's store: cart[u] is the cart of user u
  charged,    \* the payment collaborator's ledger: charges that took effect
  emptied,    \* the carts the cart collaborator deleted on EmptyCart, in order
  nextUUID    \* source of fresh order identifiers

vars == <<req, frame, resp, calls, inflight, conns, dials, cart, charged, emptied, nextUUID>>

Requests ==
  [user_id : Users, user_currency : Currencies, address : Addresses,
   email : {"e1"}, credit_card : {"cc1"}]

NoResp == [order |-> Nil, err |-> Nil]

frame0(started) ==
  [pc |-> IF started THEN "PlaceOrder" ELSE "off",
   ctx |-> [done |-> FALSE, dials |-> 0, calls |-> 0],
   orderID |-> 0, cartItems |-> <<>>, out |-> <<>>, idx |-> 0, cl |-> 0,
   orderItems |-> <<>>, shippingUSD |-> Nil, convCaller |-> "none", convFrom |-> Nil,
   prep |-> Nil, total |-> Nil, txID |-> "", shippingTrackingID |-> "",
   orderResult |-> Nil]

InitWith(active) ==
  /\ req \in [Reqs -> Requests]
  /\ \A r \in Reqs \ active : req[r] = [user_id |-> "u1", user_currency |-> "USD",
                                        address |-> "A1", email |-> "e1", credit_card |-> "cc1"]
  /\ frame = [r \in Reqs |-> frame0(r \in active)]
  /\ resp = [r \in Reqs |-> NoResp]
  /\ calls = [r \in Reqs |-> <<>>]
  /\ inflight = [r \in Reqs |-> {}]
  /\ conns = [r \in Reqs |-> {}]
  /\ dials = [r \in Reqs |-> <<>>]
  /\ cart \in [Users -> Carts]
  /\ charged = <<>>
  /\ emptied = <<>>
  /\ nextUUID = 1

Init == InitWith({"r1"})

\* ----------------------------------------------------------------- helpers
\* The error of a failed grpc.DialContext to svc, and of a failed RPC.
DialErr(svc) == "dial error: " \o svc
RpcErr(rpc) == "rpc error: " \o rpc

\* grpc.DialContext in adapter by succeeded: a new connection of request r to
\* svc. With a ctx that is done DialContext returns ctx.Err() instead.
Open(r, svc, by) ==
  /\ ~frame[r].ctx.done
  /\ dials' = [dials EXCEPT ![r] = Append(@, [svc |-> svc, by |-> by, ok |-> TRUE])]
  /\ conns' = [conns EXCEPT ![r] = @ \cup {[svc |-> svc, id |-> Len(dials[r]) + 1]}]

\* grpc.DialContext to svc in adapter by returned an error.
DialFails(r, svc, by) ==
  dials' = [dials EXCEPT ![r] = Append(@, [svc |-> svc, by |-> by, ok |-> FALSE])]

\* The deferred conn.Close() of the connections of r to the services in svcs.
Close(r, svcs) ==
  conns' = [conns EXCEPT ![r] = {c \in @ : c.svc \notin svcs}]

\* The RPC rpc is sent on connection conn.
Issue(r, rpc, conn, arg) ==
  /\ calls' = [calls EXCEPT ![r] = Append(@, [rpc |-> rpc, conn |-> conn, arg |-> arg, reply |-> Nil])]
  /\ inflight' = [inflight EXCEPT ![r] = @ \cup {Len(calls[r]) + 1}]

\* The RPC rpc in flight returns reply; once ctx is done the RPC returns
\* the error of the cancellation.
Answer(r, rpc, reply) ==
  LET i == CHOOSE j \in inflight[r] : calls[r][j].rpc = rpc
  IN  /\ reply.ok => ~frame[r].ctx.done
      /\ calls' = [calls EXCEPT ![r][i].reply = reply]
      /\ inflight' = [inflight EXCEPT ![r] = @ \ {i}]

Failed(rpc) == [ok |-> FALSE, val |-> RpcErr(rpc)]
Ok(v) == [ok |-> TRUE, val |-> v]

\* status.Errorf(code, ...) for the three failing stages of PlaceOrder.
PrepareErrorStatus(err) == [code |-> "Internal", msg |-> err]
\* Mutant of ChargeErrorStatus: a payment failure is reported with the code
\* of a shipping failure.
ChargeErrorStatus_unavailable(err) ==
  [code |-> "Unavailable", msg |-> <<"failed to charge card">> \o err]

ChargeErrorStatus(err) == [code |-> "Internal", msg |-> <<"failed to charge card">> \o err]
ShipErrorStatus(err) == [code |-> "Unavailable", msg |-> <<"shipping error">> \o err]

\* PlaceOrder returns (nil, status error).
ReturnError(r, st) ==
  /\ resp' = [resp EXCEPT ![r] = [order |-> Nil, err |-> st]]
  /\ frame' = [frame EXCEPT ![r].pc = "done"]

\* PlaceOrder returns (&PlaceOrderResponse{Order: orderResult}, nil).
PlaceOrderResponse(orderResult) == [order |-> orderResult, err |-> Nil]

\* Mutant of GenerateOrderID: the order id is derived from the request (an
\* idempotency key) instead of being fresh.
GenerateOrderID_fromRequest(r) ==
  /\ frame[r].pc = "PlaceOrder"
  /\ \/ /\ frame' = [frame EXCEPT ![r].orderID = 1, ![r].pc = "getUserCart"]
        /\ nextUUID' = 2
        /\ UNCHANGED resp
     \/ /\ ReturnError(r, [code |-> "Internal", msg |-> <<"failed to generate order uuid">>])
        /\ UNCHANGED nextUUID
  /\ UNCHANGED <<req, emptied, calls, inflight, conns, dials, cart, charged>>

\* -------------------------------------------------------------- PlaceOrder
\* uuid.NewUUID()
GenerateOrderID(r) ==
  /\ frame[r].pc = "PlaceOrder"
  /\ \/ /\ frame' = [frame EXCEPT ![r].orderID = nextUUID, ![r].pc = "getUserCart"]
        /\ nextUUID' = nextUUID + 1
        /\ UNCHANGED resp
     \/ /\ ReturnError(r, [code |-> "Internal", msg |-> <<"failed to generate order uuid">>])
        /\ UNCHANGED nextUUID
  /\ UNCHANGED <<req, emptied, calls, inflight, conns, dials, cart, charged>>

\* getUserCart: dial the cart service and send GetCart.
getUserCartCall(r) ==
  /\ frame[r].pc = "getUserCart"
  /\ \/ /\ ReturnError(r, PrepareErrorStatus(
                 <<"cart failure", "could not connect cart service", DialErr("cart")>>))
        /\ DialFails(r, "cart", "getUserCart")
        /\ UNCHANGED <<calls, inflight, conns>>
     \/ /\ Open(r, "cart", "getUserCart")
        /\ Issue(r, "GetCart", Len(dials[r]) + 1, [user_id |-> req[r].user_id])
        /\ frame' = [frame EXCEPT ![r].pc = "GetCart"]
        /\ UNCHANGED resp
  /\ UNCHANGED <<req, emptied, cart, charged, nextUUID>>

\* Mutant of getUserCartReturn: a failed GetCart is treated as an empty cart
\* and preparation goes on.
getUserCartReturn_ignoresError(r) ==
  /\ frame[r].pc = "GetCart"
  /\ Close(r, {"cart"})
  /\ \/ Answer(r, "GetCart", Failed("GetCart"))
     \/ Answer(r, "GetCart", Ok(cart[req[r].user_id]))
  /\ frame' = [frame EXCEPT ![r].cartItems = IF calls'[r][Len(calls[r])].reply.ok
                                             THEN cart[req[r].user_id] ELSE <<>>,
                            ![r].pc = "prepOrderItems"]
  /\ UNCHANGED <<req, emptied, resp, dials, cart, charged, nextUUID>>

\* Mutant of getUserCartReturn: reading the cart takes the items out of it,
\* so that no other request can read them.
getUserCartReturn_takesCart(r) ==
  /\ frame[r].pc = "GetCart"
  /\ Close(r, {"cart"})
  /\ \/ /\ Answer(r, "GetCart", Failed("GetCart"))
        /\ ReturnError(r, PrepareErrorStatus(
                 <<"cart failure", "failed to get user cart during checkout", RpcErr("GetCart")>>))
        /\ UNCHANGED cart
     \/ /\ Answer(r, "GetCart", Ok(cart[req[r].user_id]))
        /\ frame' = [frame EXCEPT ![r].cartItems = cart[req[r].user_id],
                                  ![r].pc = "prepOrderItems"]
        /\ cart' = [cart EXCEPT ![req[r].user_id] = <<>>]
        /\ UNCHANGED resp
  /\ UNCHANGED <<req, emptied, dials, charged, nextUUID>>

\* getUserCart: GetCart returns; the deferred Close runs.
getUserCartReturn(r) ==
  /\ frame[r].pc = "GetCart"
  /\ Close(r, {"cart"})
  /\ \/ /\ Answer(r, "GetCart", Failed("GetCart"))
        /\ ReturnError(r, PrepareErrorStatus(
                 <<"cart failure", "failed to get user cart during checkout", RpcErr("GetCart")>>))
     \/ /\ Answer(r, "GetCart", Ok(cart[req[r].user_id]))
        /\ frame' = [frame EXCEPT ![r].cartItems = cart[req[r].user_id],
                                  ![r].pc = "prepOrderItems"]
        /\ UNCHANGED resp
  /\ UNCHANGED <<req, emptied, dials, cart, charged, nextUUID>>

\* prepOrderItems: out := make([]*pb.OrderItem, len(items)), dial the catalog.
prepOrderItemsDial(r) ==
  /\ frame[r].pc = "prepOrderItems"
  /\ \/ /\ ReturnError(r, PrepareErrorStatus(
                 <<"failed to prepare order", "could not connect product catalog service",
                   DialErr("catalog")>>))
        /\ DialFails(r, "catalog", "prepOrderItems")
        /\ UNCHANGED conns
     \/ /\ Open(r, "catalog", "prepOrderItems")
        /\ frame' = [frame EXCEPT ![r].out = [i \in 1..Len(frame[r].cartItems) |-> Nil],
                                  ![r].idx = 1,
                                  ![r].cl = Len(dials[r]) + 1,
                                  ![r].pc = "loop"]
        /\ UNCHANGED resp
  /\ UNCHANGED <<req, emptied, calls, inflight, cart, charged, nextUUID>>

\* prepOrderItems, loop body: GetProduct for the next cart item, on the
\* catalog connection dialed before the loop. With a ctx that is done the
\* client fails the RPC without sending it.
GetProductCall(r) ==
  /\ frame[r].pc = "loop"
  /\ frame[r].idx <= Len(frame[r].cartItems)
  /\ IF frame[r].ctx.done
     THEN /\ Close(r, {"catalog"})
          /\ ReturnError(r, PrepareErrorStatus(<<"failed to prepare order", "failed to get product">>))
          /\ UNCHANGED <<calls, inflight>>
     ELSE /\ Issue(r, "GetProduct", frame[r].cl,
                   [id |-> frame[r].cartItems[frame[r].idx].product_id])
          /\ frame' = [frame EXCEPT ![r].pc = "GetProduct"]
          /\ UNCHANGED <<resp, conns>>
  /\ UNCHANGED <<req, emptied, dials, cart, charged, nextUUID>>

\* prepOrderItems, loop body: GetProduct returns; on success its USD price
\* is handed to convertCurrency.
GetProductReturn(r) ==
  /\ frame[r].pc = "GetProduct"
  /\ \/ /\ Answer(r, "GetProduct", Failed("GetProduct"))
        /\ Close(r, {"catalog"})
        /\ ReturnError(r, PrepareErrorStatus(<<"failed to prepare order", "failed to get product">>))
     \/ LET price == PriceUsd(frame[r].cartItems[frame[r].idx].product_id)
        IN  /\ Answer(r, "GetProduct", Ok([price_usd |-> price]))
            /\ frame' = [frame EXCEPT ![r].convCaller = "item",
                                      ![r].convFrom = price,
                                      ![r].pc = "convertCurrency"]
            /\ UNCHANGED <<resp, conns>>
  /\ UNCHANGED <<req, emptied, dials, cart, charged, nextUUID>>

\* prepOrderItems, after the last item: return out; the deferred Close of the
\* catalog connection runs. prepareOrderItemsAndShippingQuoteFromCart goes on
\* to quoteShipping.
prepOrderItemsReturn(r) ==
  /\ frame[r].pc = "loop"
  /\ frame[r].idx > Len(frame[r].cartItems)
  /\ Close(r, {"catalog"})
  /\ frame' = [frame EXCEPT ![r].orderItems = frame[r].out, ![r].pc = "quoteShipping"]
  /\ UNCHANGED <<req, emptied, resp, calls, inflight, dials, cart, charged, nextUUID>>

\* The error of prepareOrderItemsAndShippingQuoteFromCart when convertCurrency
\* returned err, by call site: prepOrderItems drops err, the shipping
\* conversion wraps it.
ConvertFailure(caller, err) ==
  IF caller = "item"
  THEN <<"failed to prepare order", "failed to convert price of">>
  ELSE <<"failed to convert shipping cost to currency">> \o err

\* Mutant of ClosedOnConvertFailure: the catalog connection of prepOrderItems
\* is not closed when the conversion of an item's price fails.
ClosedOnConvertFailure_onlyCurrency(caller) == {"currency"}

\* The connections closed when convertCurrency fails: its own and, when
\* called from prepOrderItems, the catalog connection of the returning caller.
ClosedOnConvertFailure(caller) ==
  IF caller = "item" THEN {"currency", "catalog"} ELSE {"currency"}

\* pb.OrderItem{Item: item, Cost: price}
OrderItem(item, price) == [item |-> item, cost |-> price]

\* Mutant of AfterConvert: every order item points at the first cart item
\* (the loop variable is not the one stored).
AfterConvert_firstItem(f, result) ==
  IF f.convCaller = "item"
  THEN [f EXCEPT !.out[f.idx] = OrderItem(f.cartItems[1], result),
                 !.idx = f.idx + 1,
                 !.pc = "loop"]
  ELSE [f EXCEPT !.prep = [shippingCostLocalized |-> result,
                           cartItems |-> f.cartItems,
                           orderItems |-> f.orderItems],
                 !.pc = "ComputeTotal"]

\* The frame after convertCurrency returned result to its caller: prepOrderItems
\* stores out[i] and moves to the next item; the shipping call site fills
\* the orderPrep.
AfterConvert(f, result) ==
  IF f.convCaller = "item"
  THEN [f EXCEPT !.out[f.idx] = OrderItem(f.cartItems[f.idx], result),
                 !.idx = f.idx + 1,
                 !.pc = "loop"]
  ELSE [f EXCEPT !.prep = [shippingCostLocalized |-> result,
                           cartItems |-> f.cartItems,
                           orderItems |-> f.orderItems],
                 !.pc = "ComputeTotal"]

\* convertCurrency: dial the currency service and send Convert.
convertCurrencyCall(r) ==
  /\ frame[r].pc = "convertCurrency"
  /\ \/ /\ ReturnError(r, PrepareErrorStatus(ConvertFailure(frame[r].convCaller,
                 <<"could not connect currency service", DialErr("currency")>>)))
        /\ Close(r, ClosedOnConvertFailure(frame[r].convCaller) \ {"currency"})
        /\ DialFails(r, "currency", "convertCurrency")
        /\ UNCHANGED <<calls, inflight>>
     \/ /\ Open(r, "currency", "convertCurrency")
        /\ Issue(r, "Convert", Len(dials[r]) + 1,
                 [from |-> frame[r].convFrom, to_code |-> req[r].user_currency])
        /\ frame' = [frame EXCEPT ![r].pc = "Convert"]
        /\ UNCHANGED resp
  /\ UNCHANGED <<req, emptied, cart, charged, nextUUID>>

\* convertCurrency: Convert returns; the deferred Close runs and the result
\* goes to the call site.
convertCurrencyReturn(r) ==
  /\ frame[r].pc = "Convert"
  /\ \/ /\ Answer(r, "Convert", Failed("Convert"))
        /\ Close(r, ClosedOnConvertFailure(frame[r].convCaller))
        /\ ReturnError(r, PrepareErrorStatus(ConvertFailure(frame[r].convCaller,
                 <<"failed to convert currency", RpcErr("Convert")>>)))
     \/ \E result \in ConvertReplies(frame[r].convFrom, req[r].user_currency) :
          /\ Answer(r, "Convert", Ok(result))
          /\ Close(r, {"currency"})
          /\ frame' = [frame EXCEPT ![r] = AfterConvert(frame[r], result)]
          /\ UNCHANGED resp
  /\ UNCHANGED <<req, emptied, dials, cart, charged, nextUUID>>

\* Mutant of quoteShippingCall: the GetQuoteRequest is sent without the
\* cart items.
quoteShippingCall_noItems(r) ==
  /\ frame[r].pc = "quoteShipping"
  /\ \/ /\ ReturnError(r, PrepareErrorStatus(
                 <<"shipping quote failure", "could not connect shipping service",
                   DialErr("shipping")>>))
        /\ DialFails(r, "shipping", "quoteShipping")
        /\ UNCHANGED <<calls, inflight, conns>>
     \/ /\ Open(r, "shipping", "quoteShipping")
        /\ Issue(r, "GetQuote", Len(dials[r]) + 1,
                 [address |-> req[r].address, items |-> <<>>])
        /\ frame' = [frame EXCEPT ![r].pc = "GetQuote"]
        /\ UNCHANGED resp
  /\ UNCHANGED <<req, emptied, cart, charged, nextUUID>>

\* quoteShipping: dial the shipping service and send GetQuote.
quoteShippingCall(r) ==
  /\ frame[r].pc = "quoteShipping"
  /\ \/ /\ ReturnError(r, PrepareErrorStatus(
                 <<"shipping quote failure", "could not connect shipping service",
                   DialErr("shipping")>>))
        /\ DialFails(r, "shipping", "quoteShipping")
        /\ UNCHANGED <<calls, inflight, conns>>
     \/ /\ Open(r, "shipping", "quoteShipping")
        /\ Issue(r, "GetQuote", Len(dials[r]) + 1,
                 [address |-> req[r].address, items |-> frame[r].cartItems])
        /\ frame' = [frame EXCEPT ![r].pc = "GetQuote"]
        /\ UNCHANGED resp
  /\ UNCHANGED <<req, emptied, cart, charged, nextUUID>>

\* quoteShipping: GetQuote returns; on success the USD quote is handed to
\* convertCurrency.
quoteShippingReturn(r) ==
  /\ frame[r].pc = "GetQuote"
  /\ Close(r, {"shipping"})
  /\ \/ /\ Answer(r, "GetQuote", Failed("GetQuote"))
        /\ ReturnError(r, PrepareErrorStatus(
                 <<"shipping quote failure", "failed to get shipping quote", RpcErr("GetQuote")>>))
     \/ \E q \in ShipQuotes :
          /\ Answer(r, "GetQuote", Ok([cost_usd |-> q]))
          /\ frame' = [frame EXCEPT ![r].shippingUSD = q,
                                    ![r].convCaller = "ship",
                                    ![r].convFrom = q,
                                    ![r].pc = "convertCurrency"]
          /\ UNCHANGED resp
  /\ UNCHANGED <<req, emptied, dials, cart, charged, nextUUID>>

\* The loop "for _, it := range prep.orderItems { total = Must(Sum(total, *it.Cost)) }":
\* the running total, or the first failure of Sum.
RECURSIVE SumCosts(_, _)
SumCosts(total, items) ==
  IF items = <<>> THEN [ok |-> TRUE, val |-> total]
  ELSE LET s == Sum(total, Head(items).cost)
       IN  IF s.ok THEN SumCosts(s.val, Tail(items)) ELSE s

\* Mutant of Total: the shipping cost is left out of the total.
Total_withoutShipping(userCurrency, prep) ==
  SumCosts(Money(userCurrency, 0, 0), prep.orderItems)

\* The total of PlaceOrder: zero in the user's currency, plus the localized
\* shipping cost, plus the cost of every order item.
Total(userCurrency, prep) ==
  LET s == Sum(Money(userCurrency, 0, 0), prep.shippingCostLocalized)
  IN  IF s.ok THEN SumCosts(s.val, prep.orderItems) ELSE s

\* Mutant of ComputeTotal: the error of money.Sum is dropped instead of being
\* passed to money.Must, and the total computed so far (zero) is charged.
ComputeTotal_ignoresSumError(r) ==
  /\ frame[r].pc = "ComputeTotal"
  /\ LET t == Total(req[r].user_currency, frame[r].prep)
     IN  frame' = [frame EXCEPT ![r].total = IF t.ok THEN t.val
                                             ELSE Money(req[r].user_currency, 0, 0),
                                ![r].pc = "chargeCard"]
  /\ UNCHANGED <<req, emptied, resp, calls, inflight, conns, dials, cart, charged, nextUUID>>

\* Mutant of ComputeTotal: PlaceOrder goes on to shipOrder, the card is charged
\* by no step.
ComputeTotal_skipsCharge(r) ==
  /\ frame[r].pc = "ComputeTotal"
  /\ LET t == Total(req[r].user_currency, frame[r].prep)
     IN  frame' = [frame EXCEPT ![r].total = t.val,
                                ![r].pc = IF t.ok THEN "shipOrder" ELSE "panic"]
  /\ UNCHANGED <<req, emptied, resp, calls, inflight, conns, dials, cart, charged, nextUUID>>

\* PlaceOrder computes the total; money.Must panics when a Sum failed, which
\* ends the request without a response.
ComputeTotal(r) ==
  /\ frame[r].pc = "ComputeTotal"
  /\ LET t == Total(req[r].user_currency, frame[r].prep)
     IN  frame' = [frame EXCEPT ![r].total = t.val,
                                ![r].pc = IF t.ok THEN "chargeCard" ELSE "panic"]
  /\ UNCHANGED <<req, emptied, resp, calls, inflight, conns, dials, cart, charged, nextUUID>>

\* chargeCard: dial the payment service and send Charge.
chargeCardCall(r) ==
  /\ frame[r].pc = "chargeCard"
  /\ \/ /\ ReturnError(r, ChargeErrorStatus(
                 <<"failed to connect payment service", DialErr("payment")>>))
        /\ DialFails(r, "payment", "chargeCard")
        /\ UNCHANGED <<calls, inflight, conns>>
     \/ /\ Open(r, "payment", "chargeCard")
        /\ Issue(r, "Charge", Len(dials[r]) + 1,
                 [amount |-> frame[r].total, credit_card |-> req[r].credit_card])
        /\ frame' = [frame EXCEPT ![r].pc = "Charge"]
        /\ UNCHANGED resp
  /\ UNCHANGED <<req, emptied, cart, charged, nextUUID>>

\* Mutant of chargeCardReturn: a failed Charge is retried instead of being
\* returned to PlaceOrder.
chargeCardReturn_retries(r) ==
  /\ frame[r].pc = "Charge"
  /\ Close(r, {"payment"})
  /\ \/ /\ Answer(r, "Charge", Failed("Charge"))
        /\ frame' = [frame EXCEPT ![r].pc = "chargeCard"]
        /\ \/ UNCHANGED charged
           \/ charged' = Append(charged, [req |-> r, amount |-> frame[r].total])
     \/ /\ Answer(r, "Charge", Ok([transaction_id |-> "tx"]))
        /\ charged' = Append(charged, [req |-> r, amount |-> frame[r].total])
        /\ frame' = [frame EXCEPT ![r].txID = "tx", ![r].pc = "shipOrder"]
  /\ UNCHANGED <<req, emptied, resp, dials, cart, nextUUID>>

\* chargeCard: Charge returns. The payment collaborator declines (no charge),
\* charges and answers, or charges while the answer is lost to the caller.
chargeCardReturn(r) ==
  /\ frame[r].pc = "Charge"
  /\ Close(r, {"payment"})
  /\ \/ /\ Answer(r, "Charge", Failed("Charge"))
        /\ ReturnError(r, ChargeErrorStatus(<<"could not charge the card", RpcErr("Charge")>>))
        /\ \/ UNCHANGED charged
           \/ charged' = Append(charged, [req |-> r, amount |-> frame[r].total])
     \/ /\ Answer(r, "Charge", Ok([transaction_id |-> "tx"]))
        /\ charged' = Append(charged, [req |-> r, amount |-> frame[r].total])
        /\ frame' = [frame EXCEPT ![r].txID = "tx", ![r].pc = "shipOrder"]
        /\ UNCHANGED resp
  /\ UNCHANGED <<req, emptied, dials, cart, nextUUID>>

\* Mutant of shipOrderCall: ShipOrder is sent on the connection quoteShipping
\* dialed (a shipping client kept from the quote) instead of the one just
\* dialed.
shipOrderCall_reusesQuoteConnection(r) ==
  /\ frame[r].pc = "shipOrder"
  /\ \/ /\ ReturnError(r, ShipErrorStatus(
                 <<"failed to connect email service", DialErr("shipping")>>))
        /\ DialFails(r, "shipping", "shipOrder")
        /\ UNCHANGED <<calls, inflight, conns>>
     \/ /\ Open(r, "shipping", "shipOrder")
        /\ Issue(r, "ShipOrder",
                 CHOOSE i \in DOMAIN dials[r] : dials[r][i].by = "quoteShipping",
                 [address |-> req[r].address, items |-> frame[r].prep.cartItems])
        /\ frame' = [frame EXCEPT ![r].pc = "ShipOrder"]
        /\ UNCHANGED resp
  /\ UNCHANGED <<req, emptied, cart, charged, nextUUID>>

\* shipOrder: dial the shipping service and send ShipOrder.
shipOrderCall(r) ==
  /\ frame[r].pc = "shipOrder"
  /\ \/ /\ ReturnError(r, ShipErrorStatus(
                 <<"failed to connect email service", DialErr("shipping")>>))
        /\ DialFails(r, "shipping", "shipOrder")
        /\ UNCHANGED <<calls, inflight, conns>>
     \/ /\ Open(r, "shipping", "shipOrder")
        /\ Issue(r, "ShipOrder", Len(dials[r]) + 1,
                 [address |-> req[r].address, items |-> frame[r].prep.cartItems])
        /\ frame' = [frame EXCEPT ![r].pc = "ShipOrder"]
        /\ UNCHANGED resp
  /\ UNCHANGED <<req, emptied, cart, charged, nextUUID>>

\* Mutant of shipOrderReturn: a failed ShipOrder is treated like a
\* best-effort step and the request goes on without a tracking id.
shipOrderReturn_bestEffort(r) ==
  /\ frame[r].pc = "ShipOrder"
  /\ Close(r, {"shipping"})
  /\ \/ /\ Answer(r, "ShipOrder", Failed("ShipOrder"))
        /\ frame' = [frame EXCEPT ![r].pc = "emptyUserCart"]
     \/ \E t \in TrackingIds :
          /\ Answer(r, "ShipOrder", Ok([tracking_id |-> t]))
          /\ frame' = [frame EXCEPT ![r].shippingTrackingID = t, ![r].pc = "emptyUserCart"]
  /\ UNCHANGED <<req, emptied, resp, dials, cart, charged, nextUUID>>

\* shipOrder: ShipOrder returns.
shipOrderReturn(r) ==
  /\ frame[r].pc = "ShipOrder"
  /\ Close(r, {"shipping"})
  /\ \/ /\ Answer(r, "ShipOrder", Failed("ShipOrder"))
        /\ ReturnError(r, ShipErrorStatus(<<"shipment failed", RpcErr("ShipOrder")>>))
     \/ \E t \in TrackingIds :
          /\ Answer(r, "ShipOrder", Ok([tracking_id |-> t]))
          /\ frame' = [frame EXCEPT ![r].shippingTrackingID = t, ![r].pc = "emptyUserCart"]
          /\ UNCHANGED resp
  /\ UNCHANGED <<req, emptied, dials, cart, charged, nextUUID>>

\* Mutant of emptyUserCartCall: PlaceOrder checks the error of emptyUserCart
\* and fails the request when the cart service cannot be dialed.
emptyUserCartCall_propagates(r) ==
  /\ frame[r].pc = "emptyUserCart"
  /\ \/ /\ ReturnError(r, [code |-> "Internal",
                          msg |-> <<"could not connect cart service", DialErr("cart")>>])
        /\ DialFails(r, "cart", "emptyUserCart")
        /\ UNCHANGED <<calls, inflight, conns>>
     \/ /\ Open(r, "cart", "emptyUserCart")
        /\ Issue(r, "EmptyCart", Len(dials[r]) + 1, [user_id |-> req[r].user_id])
        /\ frame' = [frame EXCEPT ![r].pc = "EmptyCart"]
        /\ UNCHANGED resp
  /\ UNCHANGED <<req, emptied, cart, charged, nextUUID>>

\* emptyUserCart: dial the cart service and send EmptyCart; PlaceOrder
\* discards the error.
emptyUserCartCall(r) ==
  /\ frame[r].pc = "emptyUserCart"
  /\ \/ /\ frame' = [frame EXCEPT ![r].pc = "sendOrderConfirmation"]
        /\ DialFails(r, "cart", "emptyUserCart")
        /\ UNCHANGED <<calls, inflight, conns>>
     \/ /\ Open(r, "cart", "emptyUserCart")
        /\ Issue(r, "EmptyCart", Len(dials[r]) + 1, [user_id |-> req[r].user_id])
        /\ frame' = [frame EXCEPT ![r].pc = "EmptyCart"]
  /\ UNCHANGED <<req, emptied, resp, cart, charged, nextUUID>>

\* Mutant of emptyUserCartReturn: EmptyCart deletes from the cart only the
\* items the request read with GetCart, and leaves what was added since.
emptyUserCartReturn_ownItemsOnly(r) ==
  /\ frame[r].pc = "EmptyCart"
  /\ Close(r, {"cart"})
  /\ \/ /\ Answer(r, "EmptyCart", Failed("EmptyCart"))
        /\ UNCHANGED <<cart, emptied>>
     \/ /\ Answer(r, "EmptyCart", Ok([empty |-> TRUE]))
        /\ LET u == req[r].user_id
               n == IF Len(frame[r].prep.cartItems) < Len(cart[u])
                    THEN Len(frame[r].prep.cartItems) ELSE Len(cart[u])
           IN  /\ cart' = [cart EXCEPT ![u] = SubSeq(@, n + 1, Len(@))]
               /\ emptied' = Append(emptied, [user_id |-> u, by |-> r,
                                              items |-> SubSeq(cart[u], 1, n)])
  /\ frame' = [frame EXCEPT ![r].pc = "sendOrderConfirmation"]
  /\ UNCHANGED <<req, resp, dials, charged, nextUUID>>

\* emptyUserCart: EmptyCart returns; PlaceOrder discards the error.
emptyUserCartReturn(r) ==
  /\ frame[r].pc = "EmptyCart"
  /\ Close(r, {"cart"})
  /\ \/ /\ Answer(r, "EmptyCart", Failed("EmptyCart"))
        /\ UNCHANGED <<cart, emptied>>
     \/ /\ Answer(r, "EmptyCart", Ok([empty |-> TRUE]))
        /\ cart' = [cart EXCEPT ![req[r].user_id] = <<>>]
        /\ emptied' = Append(emptied, [user_id |-> req[r].user_id, by |-> r,
                                       items |-> cart[req[r].user_id]])
  /\ frame' = [frame EXCEPT ![r].pc = "sendOrderConfirmation"]
  /\ UNCHANGED <<req, resp, dials, charged, nextUUID>>

\* Mutant of OrderResult: the payment transaction id is put where the
\* shipping tracking id belongs.
OrderResult_transactionAsTracking(f, request) ==
  [order_id |-> f.orderID,
   shipping_tracking_id |-> f.txID,
   shipping_cost |-> f.prep.shippingCostLocalized,
   shipping_address |-> request.address,
   items |-> f.prep.orderItems]

\* pb.OrderResult{OrderId, ShippingTrackingId, ShippingCost, ShippingAddress, Items}
OrderResult(f, request) ==
  [order_id |-> f.orderID,
   shipping_tracking_id |-> f.shippingTrackingID,
   shipping_cost |-> f.prep.shippingCostLocalized,
   shipping_address |-> request.address,
   items |-> f.prep.orderItems]

\* PlaceOrder builds the OrderResult; sendOrderConfirmation dials the email
\* service and sends SendOrderConfirmation. A failed dial is logged and
\* PlaceOrder returns the response.
sendOrderConfirmationCall(r) ==
  /\ frame[r].pc = "sendOrderConfirmation"
  /\ LET orderResult == OrderResult(frame[r], req[r])
     IN  \/ /\ frame' = [frame EXCEPT ![r].orderResult = orderResult, ![r].pc = "done"]
            /\ resp' = [resp EXCEPT ![r] = PlaceOrderResponse(orderResult)]
            /\ DialFails(r, "email", "sendOrderConfirmation")
            /\ UNCHANGED <<calls, inflight, conns>>
         \/ /\ Open(r, "email", "sendOrderConfirmation")
            /\ Issue(r, "SendOrderConfirmation", Len(dials[r]) + 1,
                     [email |-> req[r].email, order |-> orderResult])
            /\ frame' = [frame EXCEPT ![r].orderResult = orderResult,
                                      ![r].pc = "SendOrderConfirmation"]
            /\ UNCHANGED resp
  /\ UNCHANGED <<req, emptied, cart, charged, nextUUID>>

\* sendOrderConfirmation: SendOrderConfirmation returns; its error is only
\* logged, and PlaceOrder returns the response.
sendOrderConfirmationReturn(r) ==
  /\ frame[r].pc = "SendOrderConfirmation"
  /\ Close(r, {"email"})
  /\ \/ Answer(r, "SendOrderConfirmation", Failed("SendOrderConfirmation"))
     \/ Answer(r, "SendOrderConfirmation", Ok([empty |-> TRUE]))
  /\ frame' = [frame EXCEPT ![r].pc = "done"]
  /\ resp' = [resp EXCEPT ![r] = PlaceOrderResponse(frame[r].orderResult)]
  /\ UNCHANGED <<req, emptied, dials, cart, charged, nextUUID>>

\* ------------------------------------------------------------ specification
\* One step of request r.
PlaceOrder(r) ==
  \/ GenerateOrderID(r)
  \/ getUserCartCall(r)
  \/ getUserCartReturn(r)
  \/ prepOrderItemsDial(r)
  \/ GetProductCall(r)
  \/ GetProductReturn(r)
  \/ prepOrderItemsReturn(r)
  \/ convertCurrencyCall(r)
  \/ convertCurrencyReturn(r)
  \/ quoteShippingCall(r)
  \/ quoteShippingReturn(r)
  \/ ComputeTotal(r)
  \/ chargeCardCall(r)
  \/ chargeCardReturn(r)
  \/ shipOrderCall(r)
  \/ shipOrderReturn(r)
  \/ emptyUserCartCall(r)
  \/ emptyUserCartReturn(r)
  \/ sendOrderConfirmationCall(r)
  \/ sendOrderConfirmationReturn(r)

Next == \E r \in Reqs : PlaceOrder(r)

Spec == Init /\ [][Next]_vars

\* The caller of PlaceOrder(r) cancels the request, or its deadline passes,
\* while PlaceOrder runs: ctx is done from then on. ctx remembers how many
\* dials and RPCs the request had made by then.
Cancel(r) ==
  /\ frame[r].pc \notin {"off", "done", "panic"}
  /\ ~frame[r].ctx.done
  /\ frame' = [frame EXCEPT ![r].ctx = [done |-> TRUE, dials |-> Len(dials[r]),
                                        calls |-> Len(calls[r])]]
  /\ UNCHANGED <<req, emptied, resp, calls, inflight, conns, dials, cart, charged, nextUUID>>

\* Requests whose context may be canceled at any point.
NextCancel == Next \/ \E r \in Reqs : Cancel(r)

SpecCancel == Init /\ [][NextCancel]_vars

\* Two successive PlaceOrder calls for the same logical order: r2 carries the
\* request of r1 and is served after r1 has ended. The carts have at most
\* MaxSeqItems lines and the order is placed in EUR for address A1.
MaxSeqItems == 1

InitSeq ==
  /\ InitWith(Reqs)
  /\ req["r2"] = req["r1"]
  /\ req["r1"].user_currency = "EUR"
  /\ req["r1"].address = "A1"
  /\ \A u \in Users : Len(cart[u]) <= MaxSeqItems

NextSeq ==
  \E r \in Reqs :
    /\ r = "r2" => frame["r1"].pc \in {"done", "panic"}
    /\ PlaceOrder(r)

SpecSeq == InitSeq /\ [][NextSeq]_vars

\* Other cart activity: while a request is running, another client of the
\* cart collaborator adds one unit of a product to the cart of user u. The
\* cart holds at most MaxCartItems items at the start and one more later.
MaxCartItems == 1

AddItem(u) ==
  /\ \E r \in Reqs : frame[r].pc \notin {"off", "done", "panic"}
  /\ Len(cart[u]) <= MaxCartItems
  /\ \E p \in Products : cart' = [cart EXCEPT ![u] = Append(@, CartItem(p, 1))]
  /\ UNCHANGED <<req, emptied, frame, resp, calls, inflight, conns, dials, charged, nextUUID>>

InitCart ==
  /\ Init
  /\ req["r1"].user_currency = "EUR"
  /\ \A u \in Users : Len(cart[u]) <= MaxCartItems

NextCart == Next \/ \E u \in Users : AddItem(u)

SpecCart == InitCart /\ [][NextCart]_vars

\* Two requests of the same user, with the same request fields, running in
\* parallel over a cart of at most MaxParItems items, one unit of each:
\* their steps interleave freely.
MaxParItems == 1

InitPar ==
  /\ InitWith(Reqs)
  /\ req["r2"] = req["r1"]
  /\ req["r1"].user_currency = "EUR"
  /\ req["r1"].address = "A1"
  /\ \A u \in Users :
       /\ Len(cart[u]) <= MaxParItems
       /\ \A i \in DOMAIN cart[u] : cart[u][i].quantity = 1

SpecPar == InitPar /\ [][Next]_vars

\* money.Sum on its own: PlaceOrder computes the total of an orderPrep whose
\* shipping cost and (at most one) item cost are any valid Money of one
\* currency with units of magnitude up to MaxUnits, of either sign.
MaxUnits == 1

SumNanos == {-999999999, -500000000, 0, 500000000, 999999999}

\* The valid Money values: nanos within +/-999,999,999 and of the sign of
\* the units, or one of them zero.
ValidMoney(m) ==
  /\ m.nanos > -nanosMod /\ m.nanos < nanosMod
  /\ (m.units > 0 => m.nanos >= 0) /\ (m.units < 0 => m.nanos <= 0)

SumMonies ==
  {m \in [currency_code : {usdCurrency}, units : (-MaxUnits)..MaxUnits, nanos : SumNanos] :
     ValidMoney(m)}

InitSum ==
  /\ req = [r \in Reqs |-> [user_id |-> "u1", user_currency |-> usdCurrency,
                            address |-> "A1", email |-> "e1", credit_card |-> "cc1"]]
  /\ \E ship \in SumMonies :
       \E items \in {<<>>} \cup {<<OrderItem(CartItem("P1", 1), m)>> : m \in SumMonies} :
         frame = [r \in Reqs |->
                    IF r = "r1"
                    THEN [frame0(TRUE) EXCEPT !.pc = "ComputeTotal",
                                              !.prep = [shippingCostLocalized |-> ship,
                                                        cartItems |-> <<>>,
                                                        orderItems |-> items]]
                    ELSE frame0(FALSE)]
  /\ resp = [r \in Reqs |-> NoResp]
  /\ calls = [r \in Reqs |-> <<>>]
  /\ inflight = [r \in Reqs |-> {}]
  /\ conns = [r \in Reqs |-> {}]
  /\ dials = [r \in Reqs |-> <<>>]
  /\ cart = [u \in Users |-> <<>>]
  /\ charged = <<>>
  /\ emptied = <<>>
  /\ nextUUID = 1

NextSum == \E r \in Reqs : ComputeTotal(r)

SpecSum == InitSum /\ [][NextSum]_vars

TypeOK ==
  /\ \A r \in Reqs : inflight[r] \subseteq 1..Len(calls[r])
  /\ nextUUID \in 1..3

\* ------------------------------------------------------ reading the history
Returned(c) == c.reply # Nil
RpcFailed(c) == Returned(c) /\ ~c.reply.ok
RpcOk(c) == Returned(c) /\ c.reply.ok

\* r has issued / seen fail / seen succeed an RPC named rpc.
Issued(r, rpc) == \E i \in DOMAIN calls[r] : calls[r][i].rpc = rpc
RpcFailedIn(r, rpc) == \E i \in DOMAIN calls[r] : calls[r][i].rpc = rpc /\ RpcFailed(calls[r][i])
RpcOkIn(r, rpc) == \E i \in DOMAIN calls[r] : calls[r][i].rpc = rpc /\ RpcOk(calls[r][i])

\* A dial of adapter by failed in r / was attempted by r.
DialFailedIn(r, by) == \E i \in DOMAIN dials[r] : dials[r][i].by = by /\ ~dials[r][i].ok
Dialed(r, by) == \E i \in DOMAIN dials[r] : dials[r][i].by = by

PrepAdapters == {"getUserCart", "prepOrderItems", "convertCurrency", "quoteShipping"}
PrepRpcs == {"GetCart", "GetProduct", "Convert", "GetQuote"}
AfterPrepRpcs == {"Charge", "ShipOrder", "EmptyCart", "SendOrderConfirmation"}
AllRpcs == PrepRpcs \cup AfterPrepRpcs

PrepFailed(r) ==
  \/ \E by \in PrepAdapters : DialFailedIn(r, by)
  \/ \E rpc \in PrepRpcs : RpcFailedIn(r, rpc)

ChargeFailed(r) == DialFailedIn(r, "chargeCard") \/ RpcFailedIn(r, "Charge")
ShipFailed(r) == DialFailedIn(r, "shipOrder") \/ RpcFailedIn(r, "ShipOrder")

ReturnedError(r, code) ==
  /\ frame[r].pc = "done"
  /\ resp[r].order = Nil
  /\ resp[r].err # Nil
  /\ resp[r].err.code = code

ReturnedOrder(r) ==
  /\ frame[r].pc = "done"
  /\ resp[r].err = Nil
  /\ resp[r].order # Nil

LastCall(r) == calls[r][Len(calls[r])]
LastDial(r) == dials[r][Len(dials[r])]

\* ------------------------------------------------------------------ claims
\* C1: when a preparation call fails (the dial or the RPC of GetCart,
\* GetProduct, Convert or GetQuote), PlaceOrder has returned an Internal error
\* without an OrderResult, and the request has issued no Charge, ShipOrder,
\* EmptyCart or SendOrderConfirmation.
C1_PrepFailureIsInternalAndNeverCharges ==
  \A r \in Reqs :
    PrepFailed(r) =>
      /\ ReturnedError(r, "Internal")
      /\ \A rpc \in AfterPrepRpcs : ~Issued(r, rpc)
      /\ \A i \in DOMAIN charged : charged[i].req # r

\* C1 witness: the last preparation call, the conversion of the shipping
\* quote, failed at RPC level for a cart of two items.
C1_Witness ==
  \E r \in Reqs :
    /\ PrepFailed(r)
    /\ Len(frame[r].cartItems) = 2
    /\ LastCall(r).rpc = "Convert"
    /\ LastCall(r).arg.from = frame[r].shippingUSD
    /\ RpcFailed(LastCall(r))

\* C2: when Charge succeeded and ShipOrder then failed (dial or RPC),
\* PlaceOrder has returned Unavailable, the failed ShipOrder attempt is the
\* last downstream activity of the request (no refund, no EmptyCart, no
\* SendOrderConfirmation, nothing in flight), and the charge stays in the
\* payment ledger.
C2_ShipFailureIsUnavailableAndUncompensated ==
  \A r \in Reqs :
    (RpcOkIn(r, "Charge") /\ ShipFailed(r)) =>
      /\ ReturnedError(r, "Unavailable")
      /\ inflight[r] = {}
      /\ LastDial(r).by = "shipOrder"
      /\ LastCall(r).rpc = IF DialFailedIn(r, "shipOrder") THEN "Charge" ELSE "ShipOrder"
      /\ \A i \in DOMAIN calls[r] : calls[r][i].rpc \in AllRpcs \ {"EmptyCart", "SendOrderConfirmation"}
      /\ Cardinality({i \in DOMAIN charged : charged[i].req = r}) = 1
      /\ cart[req[r].user_id] = frame[r].cartItems

\* C2 witness: a non-empty cart was charged and the ShipOrder RPC failed.
C2_Witness ==
  \E r \in Reqs :
    /\ RpcOkIn(r, "Charge")
    /\ RpcFailedIn(r, "ShipOrder")
    /\ frame[r].cartItems # <<>>
    /\ frame[r].pc = "done"

EmptyCartFailed(r) == DialFailedIn(r, "emptyUserCart") \/ RpcFailedIn(r, "EmptyCart")
ConfirmationFailed(r) ==
  DialFailedIn(r, "sendOrderConfirmation") \/ RpcFailedIn(r, "SendOrderConfirmation")

\* C3: once ShipOrder has succeeded (which needs preparation and Charge to
\* have succeeded), the request can only be in the best-effort steps or have
\* returned an OrderResult without error, whatever EmptyCart and
\* SendOrderConfirmation did; it is never stuck before returning; and after a
\* failed EmptyCart the confirmation is still attempted before returning.
C3_BestEffortStepsNeverFailTheOrder ==
  \A r \in Reqs :
    RpcOkIn(r, "ShipOrder") =>
      /\ frame[r].pc \in {"emptyUserCart", "EmptyCart", "sendOrderConfirmation",
                          "SendOrderConfirmation", "done"}
      /\ frame[r].pc = "done" => ReturnedOrder(r) /\ Dialed(r, "sendOrderConfirmation")
      /\ frame[r].pc # "done" => resp[r] = NoResp /\ ENABLED PlaceOrder(r)

\* C3 witness: both best-effort steps failed, EmptyCart at connection level
\* and SendOrderConfirmation at RPC level, and the order was returned.
C3_Witness ==
  \E r \in Reqs :
    /\ DialFailedIn(r, "emptyUserCart")
    /\ RpcFailedIn(r, "SendOrderConfirmation")
    /\ ReturnedOrder(r)

\* C3 witness of the other combination: EmptyCart failed at RPC level, the
\* email service could not be dialed, and the order was returned.
C3_WitnessOther ==
  \E r \in Reqs :
    /\ RpcFailedIn(r, "EmptyCart")
    /\ DialFailedIn(r, "sendOrderConfirmation")
    /\ ReturnedOrder(r)

\* The value of a Money in thousandths of a unit (every amount of the model
\* is a whole number of them), and whether m is in normal form.
Millis(m) == m.units * 1000 + m.nanos \div 1000000
Normal(m) == m.nanos \in 0..(nanosMod - 1) /\ m.nanos % 1000000 = 0 /\ m.units >= 0

RECURSIVE MillisOfCosts(_)
MillisOfCosts(items) ==
  IF items = <<>> THEN 0 ELSE Millis(Head(items).cost) + MillisOfCosts(Tail(items))

\* C4: the amount of every Charge a request issues is worth the localized
\* shipping cost plus the Cost of each of the order items preparation
\* returned, every item counted once, in the user's currency and in the
\* normal form money.Sum produces.
C4_ChargedAmountIsShippingPlusItemCosts ==
  \A r \in Reqs : \A i \in DOMAIN calls[r] :
    calls[r][i].rpc = "Charge" =>
      LET amount == calls[r][i].arg.amount
          prep == frame[r].prep
      IN  /\ amount.currency_code = req[r].user_currency
          /\ Normal(amount)
          /\ Len(prep.orderItems) = Len(frame[r].cartItems)
          /\ Millis(amount) = Millis(prep.shippingCostLocalized) + MillisOfCosts(prep.orderItems)

\* C4 witness: a Charge for two order items whose nanos, added to those of
\* the shipping cost, carry into the units.
C4_Witness ==
  \E r \in Reqs :
    /\ Issued(r, "Charge")
    /\ Len(frame[r].prep.orderItems) = 2
    /\ LastCall(r).rpc = "Charge"
    /\ LastCall(r).arg.amount.units >
         frame[r].prep.shippingCostLocalized.units
           + frame[r].prep.orderItems[1].cost.units + frame[r].prep.orderItems[2].cost.units

\* Every Convert of r was answered in the currency it was asked for.
ConversionsHonest(r) ==
  \A i \in DOMAIN calls[r] :
    (calls[r][i].rpc = "Convert" /\ RpcOk(calls[r][i])) =>
      calls[r][i].reply.val.currency_code = calls[r][i].arg.to_code

\* The localized price of the whole cart line i of r: quantity times the
\* localized price of one unit.
RECURSIVE MillisOfLines(_, _)
MillisOfLines(items, cur) ==
  IF items = <<>> THEN 0
  ELSE Head(items).quantity * Millis(ConvertAtRate(PriceUsd(Head(items).product_id), cur))
         + MillisOfLines(Tail(items), cur)

\* C5 (as claimed): with a currency collaborator that answers in the target
\* currency, the amount charged is the localized shipping cost plus, for each
\* cart line, quantity times the localized unit price; for the cart
\* [{P1, 2}] in EUR with a 5.00 USD quote it is 22.50 EUR.
C5_ChargedAmountCountsQuantity ==
  \A r \in Reqs : \A i \in DOMAIN calls[r] :
    (calls[r][i].rpc = "Charge" /\ ConversionsHonest(r)) =>
      LET amount == calls[r][i].arg.amount
      IN  /\ Millis(amount) = Millis(frame[r].prep.shippingCostLocalized)
                                + MillisOfLines(frame[r].cartItems, req[r].user_currency)
          /\ (/\ frame[r].cartItems = <<CartItem("P1", 2)>>
              /\ req[r].user_currency = "EUR"
              /\ frame[r].shippingUSD = Money("USD", 5, 0))
             => amount = Money("EUR", 22, 500000000)

\* What the code charges in the scenario of C5: 13.50 EUR, the price of one
\* unit plus shipping.
C5_ScenarioChargesOneUnit ==
  \A r \in Reqs : \A i \in DOMAIN calls[r] :
    (/\ calls[r][i].rpc = "Charge" /\ ConversionsHonest(r)
     /\ frame[r].cartItems = <<CartItem("P1", 2)>>
     /\ req[r].user_currency = "EUR"
     /\ frame[r].shippingUSD = Money("USD", 5, 0))
    => calls[r][i].arg.amount = Money("EUR", 13, 500000000)

C5_ScenarioReached ==
  \E r \in Reqs :
    /\ Issued(r, "Charge") /\ ConversionsHonest(r)
    /\ frame[r].cartItems = <<CartItem("P1", 2)>>
    /\ req[r].user_currency = "EUR"
    /\ frame[r].shippingUSD = Money("USD", 5, 0)

\* prepareOrderItemsAndShippingQuoteFromCart of r returned an orderPrep.
Prepared(r) == frame[r].prep # Nil

\* The pricing of a cart item failed in r: the catalog could not be dialed,
\* a GetProduct failed, or the conversion of an item price failed.
ItemPricingFailed(r) ==
  \/ DialFailedIn(r, "prepOrderItems")
  \/ RpcFailedIn(r, "GetProduct")
  \/ /\ frame[r].convCaller = "item"
     /\ DialFailedIn(r, "convertCurrency") \/ RpcFailedIn(r, "Convert")

\* The calls of r that priced cart item i: calls[r][1] is GetCart, then one
\* GetProduct and one Convert per item.
GetProductOf(r, i) == calls[r][2 * i]
ConvertOf(r, i) == calls[r][2 * i + 1]

\* No order items, complete or partial, left a failed pricing.
NoPartialItems(r) ==
  ItemPricingFailed(r) =>
    /\ ~Prepared(r)
    /\ frame[r].orderItems = <<>>
    /\ resp[r].order = Nil

C6_WitnessFailure ==
  \E r \in Reqs :
    /\ ItemPricingFailed(r)
    /\ frame[r].idx = 2
    /\ frame[r].out[1] # Nil
    /\ RpcFailedIn(r, "Convert")

IsPrefix(s, t) == Len(s) <= Len(t) /\ \A i \in DOMAIN s : s[i] = t[i]

RECURSIVE Repeat(_, _)
Repeat(s, n) == IF n = 0 THEN <<>> ELSE s \o Repeat(s, n - 1)

RpcNames(r) == [i \in DOMAIN calls[r] |-> calls[r][i].rpc]
DialNames(r) == [i \in DOMAIN dials[r] |-> dials[r][i].by]

\* The RPCs of a request over a cart of n items, in the order of PlaceOrder;
\* a best-effort step whose dial failed sends no RPC.
ExpectedRpcs(r, n) ==
  <<"GetCart">> \o Repeat(<<"GetProduct", "Convert">>, n)
    \o <<"GetQuote", "Convert", "Charge", "ShipOrder">>
    \o (IF DialFailedIn(r, "emptyUserCart") THEN <<>> ELSE <<"EmptyCart">>)
    \o (IF DialFailedIn(r, "sendOrderConfirmation") THEN <<>> ELSE <<"SendOrderConfirmation">>)

\* The dials of a request over a cart of n items, in the order of PlaceOrder.
ExpectedDials(n) ==
  <<"getUserCart", "prepOrderItems">> \o Repeat(<<"convertCurrency">>, n)
    \o <<"quoteShipping", "convertCurrency", "chargeCard", "shipOrder",
         "emptyUserCart", "sendOrderConfirmation">>

\* C7: the RPCs a request has issued are, in order, a prefix of GetCart, then
\* (GetProduct, Convert) for each cart item in cart order, GetQuote, Convert
\* of the quote, Charge, ShipOrder, EmptyCart, SendOrderConfirmation, and so
\* are its dials; only the latest RPC can be in flight, every earlier one has
\* returned, successfully unless it is the best-effort EmptyCart; a request
\* that returned an order has issued the whole sequence.
C7_StepsAreSequentialAndOrdered ==
  \A r \in Reqs :
    LET n == Len(frame[r].cartItems)
    IN  /\ IsPrefix(RpcNames(r), ExpectedRpcs(r, n))
        /\ IsPrefix(DialNames(r), ExpectedDials(n))
        /\ Cardinality(inflight[r]) <= 1
        /\ inflight[r] \subseteq {Len(calls[r])}
        /\ \A i \in DOMAIN calls[r] :
             /\ i < Len(calls[r]) => RpcOk(calls[r][i]) \/ calls[r][i].rpc = "EmptyCart"
             /\ i \notin inflight[r] <=> Returned(calls[r][i])
             /\ (calls[r][i].rpc = "GetProduct")
                  => calls[r][i].arg.id = frame[r].cartItems[i \div 2].product_id
             /\ (calls[r][i].rpc = "Convert")
                  => calls[r][i].arg.from =
                       (IF calls[r][i - 1].rpc = "GetProduct"
                        THEN calls[r][i - 1].reply.val.price_usd
                        ELSE calls[r][i - 1].reply.val.cost_usd)
        /\ ReturnedOrder(r) => /\ RpcNames(r) = ExpectedRpcs(r, n)
                               /\ DialNames(r) = ExpectedDials(n)

\* C7 witness: a request over a cart of two items ran every step without any
\* failure and returned.
C7_Witness ==
  \E r \in Reqs :
    /\ ReturnedOrder(r)
    /\ Len(frame[r].cartItems) = 2
    /\ Len(calls[r]) = 11
    /\ \A i \in DOMAIN calls[r] : RpcOk(calls[r][i])

\* C8: a request that has not returned has no response; one that returned
\* has either an error and no OrderResult or an OrderResult and no error. An
\* OrderResult is returned only after GetCart, the GetProduct and Convert of
\* each of the N cart items, GetQuote, the Convert of the quote, Charge and
\* ShipOrder all succeeded, and it holds the order id generated for the
\* request, the tracking id ShipOrder answered, the converted shipping quote,
\* the request's address and N order items, the i-th made of the i-th cart
\* item and of the answer of its Convert.
C8_ResponseIsAllOrNothing ==
  \A r \in Reqs :
    /\ frame[r].pc # "done" => resp[r] = NoResp
    /\ frame[r].pc = "done" => (resp[r].order = Nil) # (resp[r].err = Nil)
    /\ resp[r].order # Nil =>
         LET n == Len(frame[r].cartItems)
             order == resp[r].order
         IN  /\ Len(calls[r]) >= 2 * n + 5
             /\ calls[r][1].rpc = "GetCart" /\ RpcOk(calls[r][1])
             /\ Len(calls[r][1].reply.val) = n
             /\ \A i \in 1..n :
                  /\ GetProductOf(r, i).rpc = "GetProduct" /\ RpcOk(GetProductOf(r, i))
                  /\ ConvertOf(r, i).rpc = "Convert" /\ RpcOk(ConvertOf(r, i))
             /\ calls[r][2 * n + 2].rpc = "GetQuote" /\ RpcOk(calls[r][2 * n + 2])
             /\ calls[r][2 * n + 3].rpc = "Convert" /\ RpcOk(calls[r][2 * n + 3])
             /\ calls[r][2 * n + 4].rpc = "Charge" /\ RpcOk(calls[r][2 * n + 4])
             /\ calls[r][2 * n + 5].rpc = "ShipOrder" /\ RpcOk(calls[r][2 * n + 5])
             /\ order.order_id = frame[r].orderID
             /\ order.order_id \in 1..(nextUUID - 1)
             /\ order.shipping_tracking_id = calls[r][2 * n + 5].reply.val.tracking_id
             /\ order.shipping_cost = calls[r][2 * n + 3].reply.val
             /\ order.shipping_address = req[r].address
             /\ Len(order.items) = n
             /\ \A i \in 1..n :
                  order.items[i] = [item |-> calls[r][1].reply.val[i],
                                    cost |-> ConvertOf(r, i).reply.val]

\* C8 witness: an OrderResult for a cart of two items, address A2 and
\* tracking id T2 was returned.
C8_Witness ==
  \E r \in Reqs :
    /\ ReturnedOrder(r)
    /\ Len(resp[r].order.items) = 2
    /\ resp[r].order.shipping_address = "A2"
    /\ resp[r].order.shipping_tracking_id = "T2"

\* C9: the shipping cost and every item Cost of a returned OrderResult are in
\* the request's user_currency; and a request to which Convert answered in
\* another currency than the one asked for never returns an OrderResult and
\* never charges.
C9_ReturnedMoneyIsInUserCurrency ==
  \A r \in Reqs :
    /\ resp[r].order # Nil =>
         /\ resp[r].order.shipping_cost.currency_code = req[r].user_currency
         /\ \A i \in DOMAIN resp[r].order.items :
              resp[r].order.items[i].cost.currency_code = req[r].user_currency
    /\ ~ConversionsHonest(r) =>
         /\ resp[r].order = Nil
         /\ \A rpc \in AfterPrepRpcs : ~Issued(r, rpc)
         /\ \A i \in DOMAIN charged : charged[i].req # r

\* C9 witness: only the Cost of the second of two items came back in another
\* currency, and the request ended in money.Must.
C9_Witness ==
  \E r \in Reqs :
    /\ frame[r].pc = "panic"
    /\ Len(frame[r].prep.orderItems) = 2
    /\ frame[r].prep.orderItems[1].cost.currency_code = req[r].user_currency
    /\ frame[r].prep.orderItems[2].cost.currency_code # req[r].user_currency
    /\ frame[r].prep.shippingCostLocalized.currency_code = req[r].user_currency

\* uuid.NewUUID failed in r.
UuidFailed(r) == frame[r].pc = "done" /\ frame[r].orderID = 0

\* C10: an error returned by PlaceOrder has code Internal or Unavailable;
\* it is Unavailable exactly when ShipOrder failed (dial or RPC), and
\* Internal when preparation or Charge failed; every error has one of these
\* causes (or the failed order id generation); and after a failed Charge
\* (dial or RPC) the request has returned without dialing or calling
\* ShipOrder, EmptyCart or SendOrderConfirmation.
C10_FailuresMapToTwoStatusClasses ==
  \A r \in Reqs :
    /\ resp[r].err # Nil =>
         /\ resp[r].err.code \in {"Internal", "Unavailable"}
         /\ resp[r].err.code = "Unavailable" <=> ShipFailed(r)
         /\ resp[r].err.code = "Internal" <=> (PrepFailed(r) \/ ChargeFailed(r) \/ UuidFailed(r))
    /\ (PrepFailed(r) \/ ChargeFailed(r)) => ReturnedError(r, "Internal")
    /\ ShipFailed(r) => ReturnedError(r, "Unavailable")
    /\ ChargeFailed(r) =>
         /\ \A rpc \in {"ShipOrder", "EmptyCart", "SendOrderConfirmation"} : ~Issued(r, rpc)
         /\ \A by \in {"shipOrder", "emptyUserCart", "sendOrderConfirmation"} : ~Dialed(r, by)
         /\ LastDial(r).by = "chargeCard"

\* C10 witness: the Charge RPC of a request with a non-empty cart failed and
\* the request returned.
C10_Witness ==
  \E r \in Reqs :
    /\ RpcFailedIn(r, "Charge")
    /\ frame[r].cartItems # <<>>
    /\ ReturnedError(r, "Internal")

Canceled(r) == frame[r].ctx.done

\* C11 (as claimed): once the context of a request is canceled the request
\* issues no further RPC and does not return a successful OrderResult; in
\* particular not when the cancellation came after ShipOrder succeeded.
C11_CanceledRequestStops ==
  \A r \in Reqs :
    Canceled(r) =>
      /\ Len(calls[r]) = frame[r].ctx.calls
      /\ ~ReturnedOrder(r)

\* What the code does on cancellation: no further RPC is sent, and an
\* OrderResult is still returned when ShipOrder had succeeded.
C11_CanceledRequestSendsNoMoreRpcs ==
  \A r \in Reqs :
    Canceled(r) =>
      /\ Len(calls[r]) = frame[r].ctx.calls
      /\ ReturnedOrder(r) => RpcOkIn(r, "ShipOrder")

\* The state C11 is about: canceled after ShipOrder succeeded, the request
\* went through both best-effort adapters and returned the order.
C11_CanceledAfterShipReturnsOrder ==
  \E r \in Reqs :
    /\ Canceled(r)
    /\ frame[r].ctx.dials < Len(dials[r])
    /\ DialFailedIn(r, "emptyUserCart")
    /\ DialFailedIn(r, "sendOrderConfirmation")
    /\ ReturnedOrder(r)

\* The charges of the payment ledger made for request r.
ChargesOf(r) == {i \in DOMAIN charged : charged[i].req = r}

\* PlaceOrder(r) returned an error from the Charge step or from an earlier one.
FailedAtOrBeforeCharge(r) ==
  /\ frame[r].pc = "done"
  /\ resp[r].err # Nil
  /\ ~RpcOkIn(r, "Charge")

\* C12 (as claimed): when PlaceOrder fails at or before the Charge step, no
\* charge took effect for the request, whatever way the payment call failed.
C12_AsClaimed ==
  \A r \in Reqs : FailedAtOrBeforeCharge(r) => ChargesOf(r) = {}

\* C12 (amended): when PlaceOrder fails before the Charge RPC is sent
\* (order id, preparation, or the dial of the payment service), no charge
\* took effect; a request is charged at most once, for the amount of the
\* Charge it sent; and when PlaceOrder fails at the Charge step with a charge
\* in the ledger, it is the Charge RPC that returned an error to the caller
\* after the payment collaborator had processed it.
C12_NoChargeUnlessChargeRpcWasSent ==
  \A r \in Reqs :
    /\ (UuidFailed(r) \/ PrepFailed(r) \/ DialFailedIn(r, "chargeCard")) => ChargesOf(r) = {}
    /\ ~Issued(r, "Charge") => ChargesOf(r) = {}
    /\ Cardinality(ChargesOf(r)) <= 1
    /\ \A i \in ChargesOf(r) : \E j \in DOMAIN calls[r] :
         /\ calls[r][j].rpc = "Charge"
         /\ Returned(calls[r][j])
         /\ calls[r][j].arg.amount = charged[i].amount
    /\ (FailedAtOrBeforeCharge(r) /\ ChargesOf(r) # {}) =>
         /\ RpcFailedIn(r, "Charge")
         /\ ReturnedError(r, "Internal")
         /\ LastCall(r).rpc = "Charge"

\* C12 witness: the Charge RPC returned an error to PlaceOrder, which
\* returned Internal, and the payment ledger holds the charge.
C12_Witness ==
  \E r \in Reqs :
    /\ FailedAtOrBeforeCharge(r)
    /\ RpcFailedIn(r, "Charge")
    /\ ChargesOf(r) # {}
    /\ frame[r].cartItems # <<>>

\* The number of RPCs named rpc that r has issued, and of dials by adapter by.
CountRpc(r, rpc) == Cardinality({i \in DOMAIN calls[r] : calls[r][i].rpc = rpc})
CountDial(r, by) == Cardinality({i \in DOMAIN dials[r] : dials[r][i].by = by})

\* C13: a request issues each RPC at most once per step (once for GetCart,
\* GetQuote, Charge, ShipOrder, EmptyCart and SendOrderConfirmation, once per
\* cart item for GetProduct, once per cart item and once for the quote for
\* Convert) and dials at most once per RPC step; two requests never share an
\* order id; and when two successive PlaceOrder calls with the same request
\* both return an OrderResult, each has issued its own Charge and ShipOrder,
\* the customer is charged twice and the order ids differ.
C13_NoRetryNoIdempotency ==
  /\ \A r \in Reqs :
       LET n == Len(frame[r].cartItems)
       IN  /\ \A rpc \in AllRpcs \ {"GetProduct", "Convert"} : CountRpc(r, rpc) <= 1
           /\ CountRpc(r, "GetProduct") <= n
           /\ CountRpc(r, "Convert") <= n + 1
           /\ \A by \in {"getUserCart", "prepOrderItems", "quoteShipping", "chargeCard",
                         "shipOrder", "emptyUserCart", "sendOrderConfirmation"} :
                CountDial(r, by) <= 1
           /\ CountDial(r, "convertCurrency") <= n + 1
           /\ Cardinality(ChargesOf(r)) <= 1
  /\ \A r1, r2 \in Reqs :
       (r1 # r2 /\ frame[r1].orderID # 0 /\ frame[r2].orderID # 0)
         => frame[r1].orderID # frame[r2].orderID
  /\ (\A r \in Reqs : ReturnedOrder(r)) =>
       /\ resp["r1"].order.order_id # resp["r2"].order.order_id
       /\ \A r \in Reqs :
            /\ CountRpc(r, "Charge") = 1
            /\ CountRpc(r, "ShipOrder") = 1
            /\ Cardinality(ChargesOf(r)) = 1
       /\ Len(charged) = 2

\* C13 witness: EmptyCart failed in the first call, the second call read
\* the same non-empty cart, and both returned an order after charging the
\* same amount.
C13_Witness ==
  /\ \A r \in Reqs : ReturnedOrder(r)
  /\ RpcFailedIn("r1", "EmptyCart")
  /\ frame["r1"].cartItems # <<>>
  /\ frame["r2"].cartItems = frame["r1"].cartItems
  /\ Len(charged) = 2
  /\ charged[1].amount = charged[2].amount

\* nanos below 1,000,000,000 in magnitude and of the sign of the units,
\* unless one of the two is zero.
SignsAgree(m) ==
  /\ m.nanos > -nanosMod /\ m.nanos < nanosMod
  /\ ~(m.units > 0 /\ m.nanos < 0)
  /\ ~(m.units < 0 /\ m.nanos > 0)

\* m is worth units whole units and nanos billionths, nanos being the sum of
\* the nanos of two valid Money values.
WorthOf(m, units, nanos) ==
  /\ m.units - units \in -1..1
  /\ (m.units - units) * nanosMod + (m.nanos - nanos) = 0

\* C14: the total PlaceOrder computes with money.Sum from valid Money values
\* of one currency has nanos below 1,000,000,000 in magnitude and of the sign
\* of its units (or one of them zero), and is worth the sum of its operands:
\* for the first accumulation step, zero plus the shipping cost, and
\* for the sum of the shipping cost and an item cost, whatever their signs.
C14_SumIsNormalized ==
  \A r \in Reqs :
    (frame[r].pc = "chargeCard" /\ frame[r].prep # Nil) =>
      LET ship == frame[r].prep.shippingCostLocalized
          items == frame[r].prep.orderItems
          total == frame[r].total
      IN  /\ total.currency_code = ship.currency_code
          /\ SignsAgree(total)
          /\ Len(items) = 0 => total = ship
          /\ Len(items) = 1 => WorthOf(total, ship.units + items[1].cost.units,
                                       ship.nanos + items[1].cost.nanos)

\* C14 witness: the first accumulation step summed zero units and non-zero
\* nanos: zero plus a shipping cost of 0.5.
C14_Witness ==
  \E r \in Reqs :
    /\ frame[r].pc = "chargeCard"
    /\ frame[r].prep.orderItems = <<>>
    /\ frame[r].prep.shippingCostLocalized = Money(usdCurrency, 0, 500000000)
    /\ frame[r].total = Money(usdCurrency, 0, 500000000)

\* C14 witness of a sum of opposite signs that needs a borrow: 1.0 plus -0.5.
C14_WitnessBorrow ==
  \E r \in Reqs :
    /\ frame[r].pc = "chargeCard"
    /\ frame[r].prep.shippingCostLocalized = Money(usdCurrency, 1, 0)
    /\ Len(frame[r].prep.orderItems) = 1
    /\ frame[r].prep.orderItems[1].cost = Money(usdCurrency, 0, -500000000)
    /\ frame[r].total = Money(usdCurrency, 0, 500000000)

\* The RPCs of r sent on connection id.
RpcsOn(r, id) == {i \in DOMAIN calls[r] : calls[r][i].conn = id}

OpenTo(r) == {c.svc : c \in conns[r]}

\* The services the adapter r is in holds a connection to, by the position
\* of r: between a dial and the return of the adapter that dialed.
HeldBy(r) ==
  LET pc == frame[r].pc
      catalog == IF frame[r].convCaller = "item" THEN {"catalog"} ELSE {}
  IN  CASE pc \in {"GetCart", "EmptyCart"} -> {"cart"}
        [] pc \in {"loop", "GetProduct"} -> {"catalog"}
        [] pc = "convertCurrency" -> catalog
        [] pc = "Convert" -> catalog \cup {"currency"}
        [] pc \in {"GetQuote", "ShipOrder"} -> {"shipping"}
        [] pc = "Charge" -> {"payment"}
        [] pc = "SendOrderConfirmation" -> {"email"}
        [] OTHER -> {}

\* C16: a request holds open exactly the connections of the adapters it is
\* in, one per service: each is closed when the adapter that dialed it
\* returns, with a result or an error. When PlaceOrder has returned the
\* request holds no connection, and it never holds more than two.
C16_ConnectionsClosedOnReturn ==
  \A r \in Reqs :
    /\ OpenTo(r) = HeldBy(r)
    /\ Cardinality(conns[r]) = Cardinality(OpenTo(r))
    /\ Cardinality(conns[r]) <= 2
    /\ frame[r].pc \in {"off", "done", "panic"} => conns[r] = {}

\* C16 witness: PlaceOrder returned an error after the conversion of an
\* item's price failed, with the catalog and the currency connection both
\* dialed, and holds no connection.
C16_Witness ==
  \E r \in Reqs :
    /\ frame[r].pc = "done"
    /\ ReturnedError(r, "Internal")
    /\ frame[r].convCaller = "item"
    /\ RpcFailedIn(r, "Convert")
    /\ \E i, j \in DOMAIN dials[r] :
         /\ dials[r][i].ok /\ dials[r][i].svc = "catalog"
         /\ dials[r][j].ok /\ dials[r][j].svc = "currency"
    /\ conns[r] = {}

\* C16 witness of the two connections open at once during item pricing.
C16_WitnessTwoOpen ==
  \E r \in Reqs : OpenTo(r) = {"catalog", "currency"}

\* The collaborator a part of an error message names, by the texts of the
\* fmt.Errorf and status.Errorf calls; "none" for a part that names none.
Named(text) ==
  CASE text \in {"cart failure", "could not connect cart service",
                 "failed to get user cart during checkout"} -> "cart"
    [] text \in {"could not connect product catalog service", "failed to get product"} -> "catalog"
    [] text \in {"failed to convert price of", "could not connect currency service",
                 "failed to convert currency",
                 "failed to convert shipping cost to currency"} -> "currency"
    [] text \in {"shipping quote failure", "could not connect shipping service",
                 "failed to get shipping quote", "shipping error", "shipment failed"} -> "shipping"
    [] text \in {"failed to charge card", "failed to connect payment service",
                 "could not charge the card"} -> "payment"
    [] text = "failed to connect email service" -> "email"
    [] OTHER -> "none"

\* The collaborators the error message msg names.
NamedIn(msg) == {Named(msg[i]) : i \in DOMAIN msg} \ {"none"}

\* The adapters whose error PlaceOrder does not return.
BestEffort == {"emptyUserCart", "sendOrderConfirmation"}

\* The failures of r whose error PlaceOrder returns: the failed dial or the
\* failed RPC, with the collaborator that failed, the adapter it failed in
\* and the underlying error.
Causes(r) ==
  {[svc |-> dials[r][i].svc, by |-> dials[r][i].by, kind |-> "dial", err |-> DialErr(dials[r][i].svc)] :
     i \in {j \in DOMAIN dials[r] : ~dials[r][j].ok /\ dials[r][j].by \notin BestEffort}}
  \cup
  {[svc |-> dials[r][calls[r][i].conn].svc, by |-> dials[r][calls[r][i].conn].by,
    kind |-> "rpc", err |-> RpcErr(calls[r][i].rpc)] :
     i \in {j \in DOMAIN calls[r] : RpcFailed(calls[r][j])
                                     /\ dials[r][calls[r][j].conn].by \notin BestEffort}}

\* The error PlaceOrder returned names the collaborator of cause c and no
\* other, and ends with the underlying error.
NamesAndCarries(r, c) ==
  /\ NamedIn(resp[r].err.msg) = {c.svc}
  /\ resp[r].err.msg[Len(resp[r].err.msg)] = c.err

\* C17: the error PlaceOrder returns after a failed dial or a failed RPC
\* names the collaborator that failed, and no other, and carries the
\* underlying error of the dial or the RPC.
C17_ErrorsNameTheFailedCollaborator ==
  \A r \in Reqs :
    (frame[r].pc = "done" /\ resp[r].err # Nil) =>
      \A c \in Causes(r) : NamesAndCarries(r, c)

\* The failures whose error the code misreports: the dial of shipOrder, the
\* GetProduct RPC, and convertCurrency called for the price of an item.
Misreported(r, c) ==
  \/ c.by = "shipOrder" /\ c.kind = "dial"
  \/ c.by = "prepOrderItems" /\ c.kind = "rpc"
  \/ c.by = "convertCurrency" /\ frame[r].convCaller = "item"

\* C17, for the other failures: the error names the collaborator that
\* failed and carries the underlying error.
C17_OtherErrorsNameAndCarry ==
  \A r \in Reqs :
    (frame[r].pc = "done" /\ resp[r].err # Nil) =>
      \A c \in Causes(r) : ~Misreported(r, c) => NamesAndCarries(r, c)

\* C17: the shipping service could not be dialed by shipOrder and the error
\* returned names the email service.
C17_ShipDialBlamedOnEmail ==
  \E r \in Reqs :
    /\ ReturnedError(r, "Unavailable")
    /\ DialFailedIn(r, "shipOrder")
    /\ "email" \in NamedIn(resp[r].err.msg)

\* C17: GetProduct failed and the error returned ends with the text of
\* prepOrderItems, not with the error of the RPC.
C17_GetProductErrorDropped ==
  \E r \in Reqs :
    /\ ReturnedError(r, "Internal")
    /\ RpcFailedIn(r, "GetProduct")
    /\ resp[r].err.msg[Len(resp[r].err.msg)] = "failed to get product"

\* The answered calls of r named rpc, and the cart r read: the reply of its
\* GetCart.
CallsOf(r, rpc) == {i \in DOMAIN calls[r] : calls[r][i].rpc = rpc}
HasSnapshot(r) == RpcOkIn(r, "GetCart")
Snapshot(r) == calls[r][CHOOSE i \in CallsOf(r, "GetCart") : TRUE].reply.val

\* C18: a request reads the cart once, and the items it sends to GetQuote,
\* prices into order items (one per item, in order) and sends to ShipOrder
\* are the sequence its GetCart returned; the address it sends to GetQuote
\* and ShipOrder and puts in the OrderResult is the address of the request,
\* whatever happens to the cart of the user while the request runs.
C18_OneSnapshotThroughout ==
  \A r \in Reqs :
    /\ Cardinality(CallsOf(r, "GetCart")) <= 1
    /\ \A i \in CallsOf(r, "GetQuote") \cup CallsOf(r, "ShipOrder") :
         /\ HasSnapshot(r)
         /\ calls[r][i].arg.items = Snapshot(r)
         /\ calls[r][i].arg.address = req[r].address
    /\ frame[r].prep # Nil =>
         /\ frame[r].prep.cartItems = Snapshot(r)
         /\ Len(frame[r].prep.orderItems) = Len(Snapshot(r))
         /\ \A k \in DOMAIN Snapshot(r) : frame[r].prep.orderItems[k].item = Snapshot(r)[k]
    /\ ReturnedOrder(r) =>
         /\ resp[r].order.shipping_address = req[r].address
         /\ Len(resp[r].order.items) = Len(Snapshot(r))
         /\ \A k \in DOMAIN Snapshot(r) : resp[r].order.items[k].item = Snapshot(r)[k]

\* C18 witness: a request returned an order for the item it had read, quoted
\* and shipped, although the cart held another item besides when the request
\* emptied it.
C18_Witness ==
  \E r \in Reqs :
    /\ ReturnedOrder(r)
    /\ Len(Snapshot(r)) = 1
    /\ \E i \in CallsOf(r, "ShipOrder") : calls[r][i].arg.items = Snapshot(r)
    /\ \E i \in CallsOf(r, "GetQuote") : calls[r][i].arg.items = Snapshot(r)
    /\ \E e \in DOMAIN emptied : emptied[e].by = r /\ Len(emptied[e].items) = 2

\* The number of occurrences of item in the sequence items.
Count(item, items) == Cardinality({k \in DOMAIN items : items[k] = item})

\* C19 as claimed: every item a request's EmptyCart deleted was an item of
\* the order, shipped by the request.
C19_AsClaimed ==
  \A e \in DOMAIN emptied :
    \A item \in CartItems :
      Count(item, emptied[e].items) <= Count(item, frame[emptied[e].by].prep.cartItems)

\* The EmptyCart of r is answered successfully in this step.
EmptyCartDone(r) ==
  /\ frame[r].pc = "EmptyCart"
  /\ frame'[r].pc = "sendOrderConfirmation"
  /\ calls'[r][Len(calls[r])].reply.ok

\* C19: a successful EmptyCart of a request deletes the whole cart of the
\* user as it is at that moment, the items the request ordered and the
\* items added since its GetCart alike; nothing else changes a cart but the
\* other clients of the cart collaborator.
C19_EmptyCartDeletesWholeCart ==
  [][\A r \in Reqs :
       EmptyCartDone(r) =>
         /\ cart'[req[r].user_id] = <<>>
         /\ emptied' = Append(emptied, [user_id |-> req[r].user_id, by |-> r,
                                        items |-> cart[req[r].user_id]])
         /\ IsPrefix(frame[r].prep.cartItems, cart[req[r].user_id])]_vars

\* C19 witness: the EmptyCart of a request deleted an item that was added
\* after its GetCart and was not part of its order.
C19_Witness ==
  \E e \in DOMAIN emptied :
    LET r == emptied[e].by
    IN  /\ ReturnedOrder(r)
        /\ Len(emptied[e].items) = Len(Snapshot(r)) + 1
        /\ SubSeq(emptied[e].items, 1, Len(Snapshot(r))) = Snapshot(r)
        /\ cart[req[r].user_id] = <<>>

\* r was charged for and shipped the cart it read.
ChargedAndShipped(r) ==
  /\ HasSnapshot(r)
  /\ RpcOkIn(r, "Charge") /\ ChargesOf(r) # {}
  /\ RpcOkIn(r, "ShipOrder")

\* C20 as claimed: no item of the cart is charged and shipped by both of two
\* parallel requests of the same user.
C20_AsClaimed ==
  \A r, q \in Reqs :
    (r # q /\ ChargedAndShipped(r) /\ ChargedAndShipped(q)) =>
      \A k \in DOMAIN Snapshot(r) \cap DOMAIN Snapshot(q) : Snapshot(r)[k] # Snapshot(q)[k]

\* C20: two parallel requests of the same user share nothing but the cart
\* of the user in the cart collaborator. Each is charged at most once, what
\* its own Charge asked, and ships the cart it read itself, under its own
\* order id; the carts they read differ only when one of them read the cart
\* after an EmptyCart had deleted it. Two requests that both read the cart
\* before either emptied it are both charged for it and both ship it.
C20_RequestsShareOnlyTheCart ==
  /\ \A r \in Reqs :
       /\ Cardinality(ChargesOf(r)) <= 1
       /\ \A i \in ChargesOf(r) :
            \E j \in CallsOf(r, "Charge") : charged[i].amount = calls[r][j].arg.amount
       /\ \A j \in CallsOf(r, "ShipOrder") : calls[r][j].arg.items = Snapshot(r)
       /\ \A c \in conns[r] : c.id \in DOMAIN dials[r]
  /\ \A r, q \in Reqs :
       r # q =>
         /\ (frame[r].orderID # 0 /\ frame[q].orderID # 0) => frame[r].orderID # frame[q].orderID
         /\ (HasSnapshot(r) /\ HasSnapshot(q) /\ Snapshot(r) # Snapshot(q)) =>
              /\ emptied # <<>>
              /\ Snapshot(r) = <<>> \/ Snapshot(q) = <<>>
         /\ (ReturnedOrder(r) /\ ReturnedOrder(q) /\ Snapshot(r) = Snapshot(q)) =>
              /\ Len(charged) = 2
              /\ \A j \in CallsOf(r, "ShipOrder") : \A k \in CallsOf(q, "ShipOrder") :
                   calls[r][j].arg.items = calls[q][k].arg.items

\* C20 witness: both requests read the same cart of one item before either
\* emptied it; both were charged, both shipped the item, and both returned
\* an order.
C20_Witness ==
  /\ \A r \in Reqs :
       /\ ReturnedOrder(r)
       /\ ChargedAndShipped(r)
       /\ Len(Snapshot(r)) = 1
  /\ Snapshot("r1") = Snapshot("r2")
  /\ Len(charged) = 2
====
